---- MODULE Spec2Model ----
(***************************************************************************)
(* Model of scripts/generate_icon.py: main() writes the SVG source, makes  *)
(* the icon directory, runs rsvg-convert once per entry of SIZES and then  *)
(* writes Contents.json.  The filesystem and the converter are the         *)
(* environment: each filesystem call either succeeds or raises OSError,    *)
(* each spawn either completes with a return code or raises.               *)
(***************************************************************************)
EXTENDS Integers, Sequences, FiniteSets, TLC

\* Number of times the script is run in a row.
MaxRuns == 2

\* generate_icon.py:11-17
SIZES == << <<16, 1>>, <<16, 2>>, <<32, 1>>, <<32, 2>>, <<128, 1>>, <<128, 2>>,
            <<256, 1>>, <<256, 2>>, <<512, 1>>, <<512, 2>> >>

\* generate_icon.py:8
ICON_DIR == "/Volumes/Code/source/repos/enclave/Enclave/Assets.xcassets/AppIcon.appiconset"

\* generate_icon.py:52
svg_path == "/tmp/enclave_icon.svg"

N == Len(SIZES)

----------------------------------------------------------------------------
\* Pure helpers of main()

\* generate_icon.py:61
ActualSize_unscaled(size, scale) == size
ActualSize(size, scale) == size * scale

\* generate_icon.py:62
Filename(size, scale) ==
    "icon_" \o ToString(size) \o "x" \o ToString(size) \o "@" \o ToString(scale) \o "x.png"

\* generate_icon.py:63 and 100 (os.path.join)
PathJoin(dir, name) == dir \o "/" \o name

\* generate_icon.py:67-70, the argument vector handed to subprocess.run
Argv(size, scale) ==
    << "rsvg-convert", "-w", ToString(ActualSize(size, scale)),
       "-h", ToString(ActualSize(size, scale)),
       "-o", PathJoin(ICON_DIR, Filename(size, scale)), svg_path >>

\* What one subprocess.run call can do: complete with a return code, or raise.
Completed(rc) == [exc |-> "None", returncode |-> rc]
Raised(e)     == [exc |-> e, returncode |-> -1]
Outcomes == {Completed(0), Completed(1), Raised("FileNotFoundError"), Raised("PermissionError")}

\* generate_icon.py:71
Succeeded_any(result) == result.exc = "None"
Succeeded(result) == result.exc = "None" /\ result.returncode = 0

\* generate_icon.py:66/75: the only try block is around subprocess.run and it
\* catches FileNotFoundError only; every other exception leaves main().
Caught_none(stage, e) == FALSE
Caught_oserror(stage, e) == stage = "spawn"
Caught_all(stage, e) == TRUE
Caught(stage, e) == stage = "spawn" /\ e = "FileNotFoundError"

\* generate_icon.py:60, the loop over SIZES ends after the last entry
LoopDone_early(k) == k > N - 1
LoopDone(k) == k > N

\* generate_icon.py:83-88
ProducedEntry(img) ==
    [filename |-> img[1], idiom |-> "mac",
     scale |-> ToString(img[3]) \o "x",
     size |-> ToString(img[2]) \o "x" \o ToString(img[2])]

\* generate_icon.py:94-98
MissingEntry(size, scale) ==
    [idiom |-> "mac",
     scale |-> ToString(scale) \o "x",
     size |-> ToString(size) \o "x" \o ToString(size)]

\* generate_icon.py:91
Existing_empty(imgs) == {}
Existing(imgs) == { <<imgs[k][2], imgs[k][3]>> : k \in 1..Len(imgs) }

\* generate_icon.py:82-88, one entry per element of images, in list order
ProducedEntries_rev(imgs) ==
    [k \in 1..Len(imgs) |-> ProducedEntry(imgs[Len(imgs) + 1 - k])]
ProducedEntries(imgs) ==
    [k \in 1..Len(imgs) |-> ProducedEntry(imgs[k])]

\* generate_icon.py:92-98, one entry per pair of sizes that is not in existing
MissingFrom(sizes, existing) ==
    LET NotExisting(p) == p \notin existing
        missing == SelectSeq(sizes, NotExisting)
    IN [k \in 1..Len(missing) |-> MissingEntry(missing[k][1], missing[k][2])]

\* A file: absent, cut short by a failed write, or holding a JSON document
Absent    == [state |-> "absent"]
Partial   == [state |-> "partial"]
Json(doc) == [state |-> "json", doc |-> doc]

\* generate_icon.py:81: the document starts from an empty image list whatever
\* the Contents.json on disk holds
FreshContents_loaded(onDisk) ==
    IF onDisk.state = "json" THEN onDisk.doc
    ELSE [images |-> << >>, info |-> [author |-> "xcode", version |-> 1]]
FreshContents(onDisk) ==
    [images |-> << >>, info |-> [author |-> "xcode", version |-> 1]]

\* generate_icon.py:81-98
BuildContents_missingFirst(imgs, onDisk) ==
    [FreshContents(onDisk) EXCEPT
       !.images = @ \o MissingFrom(SIZES, Existing(imgs)) \o ProducedEntries(imgs)]
BuildContents(imgs, onDisk) ==
    [FreshContents(onDisk) EXCEPT
       !.images = @ \o ProducedEntries(imgs) \o MissingFrom(SIZES, Existing(imgs))]

\* Contents.json left by an earlier run on a machine without rsvg-convert
OldContents == Json(BuildContents(<< >>, Absent))

----------------------------------------------------------------------------
VARIABLES
    pc,          \* position in main(): "svg", "mkdir", "spawn", "wait", "done", "aborted"
    run,         \* which run of the script this is
    i,           \* index into SIZES of the for loop at line 60
    images,      \* generate_icon.py:59
    outcome,     \* what subprocess.run did for each entry attempted in this run
    conv,        \* the converter's behaviour in the previous completed run
    invocations, \* the argument vectors spawned in this run
    running,     \* converter processes spawned and not yet completed
    started,     \* converter processes spawned in this run
    diag,        \* lines printed in this run
    svg,         \* does /tmp/enclave_icon.svg hold SVG_CONTENT
    dir,         \* does ICON_DIR exist
    pngs,        \* PNG files in ICON_DIR: set of [name, px]
    contents,    \* ICON_DIR/Contents.json
    writes,      \* completed writes of Contents.json in this run
    err,         \* the exception that left main(), "None" if none
    fault,       \* the last exception raised in this run and the call that raised it
    prev         \* Contents.json and PNG files as they were when this run started

vars == << pc, run, i, images, outcome, conv, invocations, running, started, diag,
           svg, dir, pngs, contents, writes, err, fault, prev >>

FsResults == {"ok", "OSError"}

NoFault == [at |-> "none", exc |-> "None"]

Init ==
    /\ pc = "svg"
    /\ run = 1
    /\ i = 1
    /\ images = << >>
    /\ outcome = << >>
    /\ conv = << >>
    /\ invocations = << >>
    /\ running = 0
    /\ started = 0
    /\ diag = << >>
    /\ svg = FALSE
    /\ dir \in BOOLEAN
    /\ pngs = {}
    /\ contents = IF dir THEN OldContents ELSE Absent
    /\ writes = 0
    /\ err = "None"
    /\ fault = NoFault
    /\ prev = [contents |-> contents, pngs |-> pngs]

\* generate_icon.py:52-55
WriteSvg ==
    /\ pc = "svg"
    /\ \E r \in FsResults :
         IF r = "ok"
         THEN /\ svg' = TRUE
              /\ diag' = Append(diag, "Created SVG at " \o svg_path)
              /\ pc' = "mkdir"
              /\ UNCHANGED << err, fault >>
         ELSE /\ fault' = [at |-> "svg", exc |-> r]
              /\ IF Caught("svg", r)
                 THEN pc' = "mkdir" /\ err' = err
                 ELSE pc' = "aborted" /\ err' = r
              /\ UNCHANGED << svg, diag >>
    /\ UNCHANGED << run, i, images, outcome, conv, invocations, running, started,
                    dir, pngs, contents, writes, prev >>

\* generate_icon.py:57-59
MakeDirs ==
    /\ pc = "mkdir"
    /\ \E r \in FsResults :
         IF r = "ok"
         THEN /\ dir' = TRUE
              /\ images' = << >>
              /\ i' = 1
              /\ pc' = "spawn"
              /\ UNCHANGED << err, fault >>
         ELSE /\ fault' = [at |-> "mkdir", exc |-> r]
              /\ IF Caught("mkdir", r)
                 THEN /\ images' = << >>
                      /\ i' = 1
                      /\ pc' = "spawn"
                      /\ UNCHANGED << dir, err >>
                 ELSE /\ pc' = "aborted"
                      /\ err' = r
                      /\ UNCHANGED << dir, images, i >>
    /\ UNCHANGED << run, outcome, conv, invocations, running, started, diag,
                    svg, pngs, contents, writes, prev >>

Skipped(filename) == "Skipped " \o filename \o " - install librsvg: brew install librsvg"

\* The converter behaves in a re-run as it did in the run before.
Behaviours(k) ==
    IF run > 1 THEN {conv[k]} ELSE Outcomes

\* generate_icon.py:60-70 and 75-78: the loop head, and subprocess.run up to
\* the point where the child is spawned or the spawn raises
Spawn ==
    /\ pc = "spawn"
    /\ ~LoopDone(i)
    /\ LET size == SIZES[i][1]
           scale == SIZES[i][2]
           filename == Filename(size, scale)
       IN \E o \in Behaviours(i) :
            /\ invocations' = Append(invocations, Argv(size, scale))
            /\ started' = started + 1
            /\ IF o.exc = "None"
               THEN /\ running' = running + 1
                    /\ pc' = "wait"
                    /\ UNCHANGED << i, outcome, diag, err, fault >>
               ELSE /\ outcome' = Append(outcome, o)
                    /\ fault' = [at |-> "spawn", exc |-> o.exc]
                    /\ running' = running
                    /\ IF Caught("spawn", o.exc)
                       THEN /\ diag' = Append(diag, Skipped(filename))
                            /\ i' = i + 1
                            /\ pc' = "spawn"
                            /\ err' = err
                       ELSE /\ pc' = "aborted"
                            /\ err' = o.exc
                            /\ UNCHANGED << i, diag >>
    /\ UNCHANGED << run, images, conv, svg, dir, pngs, contents, writes, prev >>

\* generate_icon.py:67-74 and 78: subprocess.run returns the completed process
Wait ==
    /\ pc = "wait"
    /\ LET size == SIZES[i][1]
           scale == SIZES[i][2]
           filename == Filename(size, scale)
       IN \E o \in { b \in Behaviours(i) : b.exc = "None" } :
            /\ running' = running - 1
            /\ outcome' = Append(outcome, o)
            /\ IF Succeeded(o)
               THEN /\ images' = Append(images, << filename, size, scale >>)
                    /\ diag' = Append(diag, "Generated " \o filename)
               ELSE /\ images' = images
                    /\ diag' = Append(diag, Skipped(filename))
            /\ pngs' = IF o.returncode = 0
                       THEN { p \in pngs : p.name # filename }
                              \cup { [name |-> filename, px |-> ActualSize(size, scale)] }
                       ELSE pngs
            /\ i' = i + 1
            /\ pc' = "spawn"
    /\ UNCHANGED << run, conv, invocations, started, svg, dir, contents, writes, err, fault, prev >>

\* generate_icon.py:80-103
WriteManifest ==
    /\ pc = "spawn"
    /\ LoopDone(i)
    /\ \E r \in FsResults :
         IF r = "ok"
         THEN /\ contents' = Json(BuildContents(images, contents))
              /\ writes' = writes + 1
              /\ diag' = Append(diag, "Updated " \o PathJoin(ICON_DIR, "Contents.json"))
              /\ pc' = "done"
              /\ UNCHANGED << err, fault >>
         ELSE /\ contents' \in {contents, Partial}
              /\ fault' = [at |-> "manifest", exc |-> r]
              /\ IF Caught("manifest", r)
                 THEN pc' = "done" /\ err' = err
                 ELSE pc' = "aborted" /\ err' = r
              /\ UNCHANGED << writes, diag >>
    /\ UNCHANGED << run, i, images, outcome, conv, invocations, running, started,
                    svg, dir, pngs, prev >>

\* generate_icon.py:105-106: the script is started again after a completed run,
\* on the files that run left
Rerun ==
    /\ pc = "done"
    /\ run < MaxRuns
    /\ pc' = "svg"
    /\ run' = run + 1
    /\ conv' = outcome
    /\ prev' = [contents |-> contents, pngs |-> pngs]
    /\ outcome' = << >>
    /\ invocations' = << >>
    /\ started' = 0
    /\ diag' = << >>
    /\ writes' = 0
    /\ fault' = NoFault
    /\ UNCHANGED << i, images, running, svg, dir, pngs, contents, err >>

\* One run of the script
Next == WriteSvg \/ MakeDirs \/ Spawn \/ Wait \/ WriteManifest

Spec == Init /\ [][Next]_vars

\* The interpreter runs main() to its end; the converter is assumed to return.
FairSpec == Spec /\ WF_vars(Next)

\* Up to MaxRuns runs in a row, each starting from the files the one before left
NextRerun == WriteSvg \/ MakeDirs \/ Spawn \/ Wait \/ WriteManifest \/ Rerun

RerunSpec == Init /\ [][NextRerun]_vars

\* generate_icon.py:105-106: the exit status of the script
ExitCode == IF pc = "aborted" THEN 1 ELSE 0

----------------------------------------------------------------------------
\* Expected values, written out for the ten SizeSpecs in working-set order

ExpSize == << "16x16", "16x16", "32x32", "32x32", "128x128", "128x128",
              "256x256", "256x256", "512x512", "512x512" >>
ExpScale == << "1x", "2x", "1x", "2x", "1x", "2x", "1x", "2x", "1x", "2x" >>
ExpFilename == << "icon_16x16@1x.png", "icon_16x16@2x.png",
                  "icon_32x32@1x.png", "icon_32x32@2x.png",
                  "icon_128x128@1x.png", "icon_128x128@2x.png",
                  "icon_256x256@1x.png", "icon_256x256@2x.png",
                  "icon_512x512@1x.png", "icon_512x512@2x.png" >>
ExpPixels == << "16", "32", "32", "64", "128", "256", "256", "512", "512", "1024" >>
ExpArgv(k) ==
    << "rsvg-convert", "-w", ExpPixels[k], "-h", ExpPixels[k], "-o",
       "/Volumes/Code/source/repos/enclave/Enclave/Assets.xcassets/AppIcon.appiconset/"
          \o ExpFilename[k],
       "/tmp/enclave_icon.svg" >>
ExpSkipped(k) ==
    "Skipped " \o ExpFilename[k] \o " - install librsvg: brew install librsvg"

Ok       == [exc |-> "None", returncode |-> 0]
NonZero  == [exc |-> "None", returncode |-> 1]
NotFound == [exc |-> "FileNotFoundError", returncode |-> -1]

\* The manifest this run has written
Written == writes = 1 /\ contents.state = "json"
M == contents.doc.images
HasFilename(e) == "filename" \in DOMAIN e
\* Positions of the manifest entries that describe the k-th SizeSpec
EntriesOf(k) == { j \in 1..Len(M) : M[j].size = ExpSize[k] /\ M[j].scale = ExpScale[k] }
\* The SizeSpecs a manifest entry describes
SpecsOf(e) == { k \in 1..10 : e.size = ExpSize[k] /\ e.scale = ExpScale[k] }
\* The i-th manifest entry describes the i-th SizeSpec
InSizesOrder == \A k \in 1..Len(M) : k <= 10 /\ M[k].size = ExpSize[k] /\ M[k].scale = ExpScale[k]
SomeFailed == \E k \in 1..Len(outcome) : outcome[k] # Ok
SomeSucceeded == \E k \in 1..Len(outcome) : outcome[k] = Ok

\* C1: whatever the converter did for each entry, the manifest main() writes
\* has exactly 10 image entries, exactly one for each (baseSize, scaleFactor)
\* pair, each with idiom "mac", size "{base}x{base}" and scale "{scale}x".
C1_OneEntryPerSpec ==
    Written =>
      /\ Len(M) = 10
      /\ \A k \in 1..10 : Cardinality(EntriesOf(k)) = 1
      /\ \A j \in 1..Len(M) : M[j].idiom = "mac" /\ Cardinality(SpecsOf(M[j])) = 1
      /\ contents.doc.info = [author |-> "xcode", version |-> 1]

C1_Witness == Written /\ run = 1 /\ SomeFailed /\ SomeSucceeded /\ NotFound \in {outcome[k] : k \in 1..Len(outcome)}

\* C2: the manifest entry of a SizeSpec carries filename
\* "icon_{base}x{base}@{scale}x.png" exactly when the converter returned
\* status zero for that SizeSpec in this run; when only (512,2) fails, 9
\* entries carry a filename and the 512x512 2x entry alone does not.
C2_FilenameIffSuccess ==
    Written =>
      /\ Len(outcome) = 10
      /\ \A k \in 1..10 :
           /\ EntriesOf(k) # {}
           /\ \A j \in EntriesOf(k) :
                /\ HasFilename(M[j]) <=> outcome[k] = Ok
                /\ HasFilename(M[j]) => M[j].filename = ExpFilename[k]
      /\ ((\A k \in 1..9 : outcome[k] = Ok) /\ outcome[10] # Ok) =>
           /\ Cardinality({ j \in 1..Len(M) : HasFilename(M[j]) }) = 9
           /\ \A j \in 1..Len(M) :
                ~HasFilename(M[j]) <=> (M[j].size = "512x512" /\ M[j].scale = "2x")

C2_Witness == Written /\ (\A k \in 1..9 : outcome[k] = Ok) /\ outcome[10] = NonZero

NoProducedAfterMissing ==
    \A a, b \in 1..Len(outcome) : (a < b /\ outcome[b] = Ok) => outcome[a] = Ok

AllNotFound == \A k \in 1..Len(outcome) : outcome[k] = NotFound
SkippedLines == { j \in 1..Len(diag) : \E k \in 1..10 : diag[j] = ExpSkipped(k) }
C4_ToolUnavailable ==
    (AllNotFound /\ pc # "wait") =>
      /\ pc = "aborted" => (err = "OSError" /\ fault.at \in {"svg", "mkdir", "manifest"})
      /\ Cardinality(SkippedLines) = Len(outcome)
      /\ \A k \in 1..Len(outcome) :
           Cardinality({ j \in 1..Len(diag) : diag[j] = ExpSkipped(k) }) = 1
      /\ (pc = "done" \/ fault.at = "manifest") => Len(outcome) = 10
      /\ pc = "done" => Written
      /\ Written => (Len(M) = 10 /\ \A j \in 1..Len(M) : ~HasFilename(M[j]))

C4_Witness == Written /\ Len(outcome) = 10 /\ AllNotFound /\ pc = "done"

\* C5: the converter invocations of one run are the SIZES list: each SizeSpec
\* attempted once, in order, with width and height baseSize*scaleFactor, one
\* at a time; a non-zero status or tool-not-found neither stops the loop nor
\* causes a second attempt.
C5_InvocationsFollowSizes ==
    /\ Len(invocations) <= 10
    /\ \A k \in 1..Len(invocations) : invocations[k] = ExpArgv(k)
    /\ started = Len(invocations)
    /\ running \in 0..1
    /\ Len(invocations) = Len(outcome) + running
    /\ pc = "spawn" => running = 0
    /\ Written => Len(invocations) = 10
    /\ (pc = "aborted" /\ fault.at = "spawn") =>
          outcome[Len(outcome)] \notin {Ok, NonZero, NotFound}

C5_Witness ==
    /\ pc = "done" /\ Len(invocations) = 10
    /\ outcome[3] = NonZero /\ outcome[4] = NotFound /\ outcome[5] = Ok

\* C6: provided the filesystem calls succeed and every spawn either completes
\* or raises tool-not-found, every run terminates: the manifest is written
\* exactly once, only after all 10 entries were processed, and the run then
\* ends with exit status 0 whatever the number of failed rasterizations.
Terminated == pc \in {"done", "aborted"}
C6_Terminates ==
    /\ [](writes \in 0..1)
    /\ [](writes = 1 => (Len(outcome) = 10 /\ pc = "done"))
    /\ [](pc = "done" => (writes = 1 /\ ExitCode = 0 /\ err = "None"))
    /\ [](pc = "aborted" =>
            (ExitCode = 1 /\
             (fault.at \in {"svg", "mkdir", "manifest"}
                \/ (fault.at = "spawn" /\ fault.exc \notin {"None", "FileNotFoundError"}))))
    /\ (pc = "svg" ~> Terminated)

C6_Witness == pc = "done" /\ writes = 1 /\ ExitCode = 0 /\ SomeFailed /\ SomeSucceeded

\* C7: a second run with the same converter outcomes, started from the files
\* the first run left, leaves the same Contents.json and the same PNG files.
C7_Idempotent ==
    (run > 1 /\ pc = "done" /\ outcome = conv) =>
      /\ contents.state = "json"
      /\ contents = prev.contents
      /\ pngs = prev.pngs

C7_Witness == run > 1 /\ pc = "done" /\ outcome = conv /\ SomeFailed /\ SomeSucceeded

\* C8: a filesystem error is fatal: when writing the SVG or creating the
\* directory fails, the error leaves main(), no converter is invoked and
\* Contents.json is not touched; when writing the manifest fails, the error
\* leaves main() and the run does not report success.
UpdatedLines == { j \in 1..Len(diag) : diag[j] =
    "Updated /Volumes/Code/source/repos/enclave/Enclave/Assets.xcassets/AppIcon.appiconset/Contents.json" }
C8_FilesystemErrorsFatal ==
    /\ fault.at \in {"svg", "mkdir"} =>
         /\ pc = "aborted" /\ err = fault.exc /\ ExitCode # 0
         /\ invocations = << >> /\ started = 0
         /\ writes = 0 /\ contents = prev.contents
    /\ fault.at = "manifest" =>
         /\ pc = "aborted" /\ err = fault.exc /\ ExitCode # 0
         /\ writes = 0 /\ UpdatedLines = {}

C8_Witness == fault.at = "manifest" /\ pc = "aborted" /\ Len(outcome) = 10 /\ SomeSucceeded

\* C9: in the manifest main() writes, every entry with a filename precedes
\* every entry without one, and within each group the entries are in SIZES
\* order; so the manifest is in SIZES order only when no Produced entry
\* follows a Missing entry in SIZES order.
C9_ProducedThenMissing ==
    Written =>
      /\ \A a, b \in 1..Len(M) : (HasFilename(M[b]) /\ ~HasFilename(M[a])) => b < a
      /\ \A a, b \in 1..Len(M) :
           (a < b /\ (HasFilename(M[a]) <=> HasFilename(M[b]))) =>
              \A ka \in SpecsOf(M[a]), kb \in SpecsOf(M[b]) : ka < kb
      /\ InSizesOrder => NoProducedAfterMissing

C9_Witness == Written /\ outcome[1] # Ok /\ outcome[2] = Ok /\ outcome[3] # Ok /\ outcome[4] = Ok

\* C10: only tool-not-found is recovered per entry: any other spawn failure
\* leaves main(), the remaining SizeSpecs are not attempted and no manifest is
\* written, so an earlier Contents.json stays as it was, while PNG files of
\* earlier entries of this run may already be on disk.
C10_OtherSpawnFailureFatal ==
    /\ (fault.at = "spawn" /\ fault.exc # "FileNotFoundError") =>
         /\ pc = "aborted" /\ err = fault.exc
         /\ Len(invocations) = Len(outcome) /\ running = 0
         /\ outcome[Len(outcome)].exc = fault.exc
         /\ writes = 0 /\ contents = prev.contents /\ UpdatedLines = {}
    /\ (fault.at = "spawn" /\ fault.exc = "FileNotFoundError") => err = "None"

C10_Witness ==
    /\ pc = "aborted" /\ fault = [at |-> "spawn", exc |-> "PermissionError"]
    /\ Len(invocations) = 4 /\ pngs # prev.pngs /\ contents = OldContents
====
